---- MODULE Spec2Model ----
(***************************************************************************)
(* Successive Halving racing intensifier of SMAC3                          *)
(* (smac/intensification/successive_halving.py) as a state machine.        *)
(*                                                                         *)
(* Numbers.  The code computes with floats; the model computes with exact  *)
(* rationals <<num, den>> (den > 0).  eta is a rational, a budget is a     *)
(* rational, int(b) is the floor of a positive rational, np.round is       *)
(* round-half-to-even.  Costs and runtimes are integers (cost units).      *)
(* Optional values: None is the empty sequence <<>>, a value v is <<v>>.   *)
(***************************************************************************)
EXTENDS Integers, Sequences, FiniteSets, TLC

\* ------------------------------------------------------------------ bounds
MaxInst  == 2   \* at most this many distinct instance names
MaxChal  == 2   \* at most this many challengers handed to one intensify call
MaxConf  == 3   \* configurations of the search space are 1..MaxConf
MaxCalls == 2   \* intensify calls on one intensifier object
MaxCost  == 2   \* costs / runtimes reported by the Evaluator are 1..MaxCost
MaxTimeBound == 1 \* time_bound arguments are 1..MaxTimeBound seconds
MaxPairs == 2   \* at most this many instance-seed pairs
LadderMax == 9  \* largest budget of the ladder-only specification

None == <<>>
Some(v) == <<v>>
IsNone(o) == o = <<>>
Val(o) == o[1]

Max2(a, b) == IF a >= b THEN a ELSE b
Min2(a, b) == IF a <= b THEN a ELSE b

RECURSIVE Pow(_, _)
Pow(b, k) == IF k <= 0 THEN 1 ELSE b * Pow(b, k - 1)

\* ------------------------------------------------------------- rationals
RatLT(a, b) == a[1] * b[2] < b[1] * a[2]
RatLE(a, b) == a[1] * b[2] <= b[1] * a[2]
RatEQ(a, b) == a[1] * b[2] = b[1] * a[2]
\* eta ** k for an integer k of either sign
RatPow(q, k) == IF k >= 0 THEN <<Pow(q[1], k), Pow(q[2], k)>>
                ELSE <<Pow(q[2], 0 - k), Pow(q[1], 0 - k)>>
\* int(x) of a non-negative rational
IntOf(q) == q[1] \div q[2]
\* np.round: round half to even, of a non-negative rational
NpRound(q) ==
    LET fl == q[1] \div q[2]
        r2 == 2 * (q[1] % q[2])
    IN  IF r2 < q[2] THEN fl
        ELSE IF r2 > q[2] THEN fl + 1
        ELSE IF fl % 2 = 0 THEN fl ELSE fl + 1

\* --------------------------------------------------------- _init_sh_params
\* np.floor(np.log(max_budget / min_budget) / np.log(eta)) for positive
\* budgets and eta > 1: the largest integer R with eta^R <= max/min.
RECURSIVE FloorLog(_, _, _)
FloorLog(ratio, eta, R) ==
    IF RatLE(RatPow(eta, R), ratio)
    THEN (IF RatLE(RatPow(eta, R + 1), ratio) THEN FloorLog(ratio, eta, R + 1) ELSE R)
    ELSE FloorLog(ratio, eta, R - 1)

\* np.floor(np.log(0)) is -inf: below every number of rungs
MinusInf == 0 - 99

MaxShIter(min_budget, max_budget, eta) ==
    IF max_budget = 0 THEN MinusInf
    ELSE FloorLog(<<max_budget, min_budget>>, eta, 0)

\* int(np.round(self.eta ** self.max_sh_iter)) if init_chal is None else init_chal
InitChal(init_chal, eta, max_sh_iter) ==
    IF ~IsNone(init_chal) THEN Val(init_chal)
    ELSE IF max_sh_iter = MinusInf THEN 0
    ELSE NpRound(RatPow(eta, max_sh_iter))

\* ---------------------------------------------------------------- __init__
\* permutations of 1..n, the outcomes of self.rs.shuffle on n names
Perms(n) == { p \in [1..n -> 1..n] : \A a, b \in 1..n : a # b => p[a] # p[b] }

\* seeds: [0] if deterministic, else n_seeds random seeds (abstract seeds 1..n)
SeedsOf(deterministic, n_seeds) ==
    IF deterministic THEN <<0>> ELSE [k \in 1..n_seeds |-> k]

\* [InstSeedKey(i, s) for s in seeds for i in self.instances]
InstSeedPairs(insts, seeds) ==
    [k \in 1..(Len(insts) * Len(seeds)) |->
        <<insts[((k - 1) % Len(insts)) + 1], seeds[((k - 1) \div Len(insts)) + 1]>>]

\* _init_sh_params with the test of eta moved behind the budget tests
ShParams_EtaTestLast(a, pairs) ==
    LET npairs == Len(pairs)
        cutoff_regime == (~a.run_obj_time) /\ npairs <= 1
        missing == IsNone(a.min_budget) \/ (IsNone(a.max_budget) /\ IsNone(a.cutoff))
        both == (~IsNone(a.cutoff)) /\ (~IsNone(a.max_budget))
        minb == IF IsNone(a.min_budget) THEN 1 ELSE Val(a.min_budget)
        maxb == IF cutoff_regime
                THEN (IF (~IsNone(a.max_budget)) /\ Val(a.max_budget) # 0
                      THEN Val(a.max_budget)
                      ELSE (IF IsNone(a.cutoff) THEN 1 ELSE Val(a.cutoff)))
                ELSE (IF IsNone(a.max_budget) THEN npairs ELSE Val(a.max_budget))
        err == IF cutoff_regime /\ missing THEN "ValueError_budget_limits"
               ELSE IF cutoff_regime /\ both THEN "AttributeError_max_budget"
               ELSE IF cutoff_regime /\ a.max_budget = Some(0) THEN "TypeError_max_budget"
               ELSE IF (~cutoff_regime) /\ maxb > npairs THEN "ValueError_max_budget"
               ELSE IF ~RatLT(<<1, 1>>, a.eta) THEN "ValueError_eta"
               ELSE "none"
        warn == IF err # "none" THEN "none"
                ELSE IF (~cutoff_regime) /\ maxb < npairs THEN "max_budget_lt_pairs"
                ELSE IF (~cutoff_regime) /\ a.run_obj_time /\ npairs <= 1 THEN "one_pair"
                ELSE "none"
        R == IF err = "none" THEN MaxShIter(minb, maxb, a.eta) ELSE 0
    IN  [error |-> err, warning |-> warn,
         eta |-> a.eta, min_budget |-> minb, max_budget |-> maxb,
         cutoff_as_budget |-> cutoff_regime,
         max_sh_iter |-> R,
         init_chal |-> IF err = "none" THEN InitChal(a.init_chal, a.eta, R) ELSE 0]

\* _init_sh_params with a regime test that ignores the objective
ShParams_RegimeByCountOnly(a, pairs) ==
    LET npairs == Len(pairs)
        cutoff_regime == npairs <= 1
        missing == IsNone(a.min_budget) \/ (IsNone(a.max_budget) /\ IsNone(a.cutoff))
        both == (~IsNone(a.cutoff)) /\ (~IsNone(a.max_budget))
        minb == IF IsNone(a.min_budget) THEN 1 ELSE Val(a.min_budget)
        maxb == IF cutoff_regime
                THEN (IF (~IsNone(a.max_budget)) /\ Val(a.max_budget) # 0
                      THEN Val(a.max_budget)
                      ELSE (IF IsNone(a.cutoff) THEN 1 ELSE Val(a.cutoff)))
                ELSE (IF IsNone(a.max_budget) THEN npairs ELSE Val(a.max_budget))
        err == IF ~RatLT(<<1, 1>>, a.eta) THEN "ValueError_eta"
               ELSE IF cutoff_regime /\ missing THEN "ValueError_budget_limits"
               ELSE IF cutoff_regime /\ both THEN "AttributeError_max_budget"
               ELSE IF cutoff_regime /\ a.max_budget = Some(0) THEN "TypeError_max_budget"
               ELSE IF (~cutoff_regime) /\ maxb > npairs THEN "ValueError_max_budget"
               ELSE "none"
        warn == IF err # "none" THEN "none"
                ELSE IF (~cutoff_regime) /\ maxb < npairs THEN "max_budget_lt_pairs"
                ELSE IF (~cutoff_regime) /\ a.run_obj_time /\ npairs <= 1 THEN "one_pair"
                ELSE "none"
        R == IF err = "none" THEN MaxShIter(minb, maxb, a.eta) ELSE 0
    IN  [error |-> err, warning |-> warn,
         eta |-> a.eta, min_budget |-> minb, max_budget |-> maxb,
         cutoff_as_budget |-> cutoff_regime,
         max_sh_iter |-> R,
         init_chal |-> IF err = "none" THEN InitChal(a.init_chal, a.eta, R) ELSE 0]

\* The budget part of _init_sh_params, given the instance-seed pairs.
\* error: "none", or the exception that leaves the constructor.
ShParams(a, pairs) ==
    LET npairs == Len(pairs)
        cutoff_regime == (~a.run_obj_time) /\ npairs <= 1
        missing == IsNone(a.min_budget) \/ (IsNone(a.max_budget) /\ IsNone(a.cutoff))
        both == (~IsNone(a.cutoff)) /\ (~IsNone(a.max_budget))
        minb == IF IsNone(a.min_budget) THEN 1 ELSE Val(a.min_budget)
        maxb == IF cutoff_regime
                THEN (IF (~IsNone(a.max_budget)) /\ Val(a.max_budget) # 0
                      THEN Val(a.max_budget)
                      ELSE (IF IsNone(a.cutoff) THEN 1 ELSE Val(a.cutoff)))
                ELSE (IF IsNone(a.max_budget) THEN npairs ELSE Val(a.max_budget))
        err == IF ~RatLT(<<1, 1>>, a.eta) THEN "ValueError_eta"
               ELSE IF cutoff_regime /\ missing THEN "ValueError_budget_limits"
               ELSE IF cutoff_regime /\ both THEN "AttributeError_max_budget"
               ELSE IF cutoff_regime /\ a.max_budget = Some(0) THEN "TypeError_max_budget"
               ELSE IF (~cutoff_regime) /\ maxb > npairs THEN "ValueError_max_budget"
               ELSE "none"
        warn == IF err # "none" THEN "none"
                ELSE IF (~cutoff_regime) /\ maxb < npairs THEN "max_budget_lt_pairs"
                ELSE IF (~cutoff_regime) /\ a.run_obj_time /\ npairs <= 1 THEN "one_pair"
                ELSE "none"
        R == IF err = "none" THEN MaxShIter(minb, maxb, a.eta) ELSE 0
    IN  [error |-> err, warning |-> warn,
         eta |-> a.eta, min_budget |-> minb, max_budget |-> maxb,
         cutoff_as_budget |-> cutoff_regime,
         max_sh_iter |-> R,
         init_chal |-> IF err = "none" THEN InitChal(a.init_chal, a.eta, R) ELSE 0]
\* the adaptive-capping flag set without a look at the instance order
Construct_CappingIgnoresOrder(a, perm) ==
    LET n_seeds == IF IsNone(a.n_seeds) \/ a.n_seeds = Some(0) THEN 1 ELSE Val(a.n_seeds)
        insts == IF a.instance_order = "shuffle_once"
                 THEN [k \in 1..a.n_inst |-> perm[k]]
                 ELSE [k \in 1..a.n_inst |-> k]
        pairs == InstSeedPairs(insts, SeedsOf(a.deterministic, n_seeds))
        p == ShParams(a, pairs)
    IN  [error |-> p.error, warning |-> p.warning,
         n_seeds |-> n_seeds, instance_order |-> a.instance_order,
         instances |-> pairs,
         cutoff |-> a.cutoff, run_obj_time |-> a.run_obj_time,
         deterministic |-> a.deterministic,
         eta |-> p.eta, min_budget |-> p.min_budget, max_budget |-> p.max_budget,
         cutoff_as_budget |-> p.cutoff_as_budget,
         max_sh_iter |-> p.max_sh_iter, init_chal |-> p.init_chal,
         adaptive_capping |-> (~p.cutoff_as_budget) /\ a.run_obj_time]

\* SuccessiveHalving.__init__: the object's fields after construction with
\* arguments a and shuffle outcome perm (used only for 'shuffle_once').
Construct(a, perm) ==
    LET n_seeds == IF IsNone(a.n_seeds) \/ a.n_seeds = Some(0) THEN 1 ELSE Val(a.n_seeds)
        insts == IF a.instance_order = "shuffle_once"
                 THEN [k \in 1..a.n_inst |-> perm[k]]
                 ELSE [k \in 1..a.n_inst |-> k]
        pairs == InstSeedPairs(insts, SeedsOf(a.deterministic, n_seeds))
        p == ShParams(a, pairs)
    IN  [error |-> p.error, warning |-> p.warning,
         n_seeds |-> n_seeds, instance_order |-> a.instance_order,
         instances |-> pairs,
         cutoff |-> a.cutoff, run_obj_time |-> a.run_obj_time,
         deterministic |-> a.deterministic,
         eta |-> p.eta, min_budget |-> p.min_budget, max_budget |-> p.max_budget,
         cutoff_as_budget |-> p.cutoff_as_budget,
         max_sh_iter |-> p.max_sh_iter, init_chal |-> p.init_chal,
         adaptive_capping |-> (~p.cutoff_as_budget) /\ a.instance_order # "shuffle"
                               /\ a.run_obj_time]

\* ------------------------------------------------- Evaluation History Store
\* run_history = [data       |-> function RunKey -> RunValue,
\*                ids        |-> function Configuration -> config id,
\*                ids_config |-> function config id -> Configuration,
\*                runs       |-> function config id -> the configuration's
\*                               InstanceSeedBudgetKeys, in ascending budget].
\* A RunKey is <<config_id, instance, seed, budget>>, an
\* InstanceSeedBudgetKey <<instance, seed, budget>>, a RunValue [cost, status].
EmptyHistory == [data |-> <<>>, ids |-> <<>>, ids_config |-> <<>>, runs |-> <<>>]

RunKeyOf(config_id, inst, seed, budget) == <<config_id, inst, seed, budget>>

\* the index keeps every context, a repeated one a second time
RECURSIVE InsertByBudget_Repeats(_, _)
InsertByBudget_Repeats(s, x) ==
    IF s = <<>> THEN <<x>>
    ELSE IF RatLT(x[3], Head(s)[3]) THEN <<x>> \o s
    ELSE <<Head(s)>> \o InsertByBudget_Repeats(Tail(s), x)

\* a context put into a configuration's ordered set of contexts:
\* InstanceSeedBudgetKey.__lt__ orders by budget, a context already there
\* is not listed again
RECURSIVE InsertByBudget(_, _)
InsertByBudget(s, x) ==
    IF s = <<>> THEN <<x>>
    ELSE IF Head(s) = x THEN s
    ELSE IF RatLT(x[3], Head(s)[3]) /\ (\A k \in 1..Len(s) : s[k] # x) THEN <<x>> \o s
    ELSE <<Head(s)>> \o InsertByBudget(Tail(s), x)

\* the id of a configuration: a new one on first sight
ConfigId(rh, config) ==
    IF config \in DOMAIN rh.ids THEN rh.ids[config]
    ELSE Cardinality(DOMAIN rh.ids) + 1

\* an add that overwrites an existing key whether forced or not
RHAdd_AlwaysOverwrites(rh, config, inst, seed, budget, cost, status, force_update) ==
    LET id == ConfigId(rh, config)
        k == RunKeyOf(id, inst, seed, budget)
        v == [cost |-> cost, status |-> status]
    IN  [ok |-> TRUE,
         rh |-> [data |-> IF k \in DOMAIN rh.data
                          THEN [rh.data EXCEPT ![k] = v]
                          ELSE rh.data @@ (k :> v),
                 ids |-> IF config \in DOMAIN rh.ids THEN rh.ids
                         ELSE rh.ids @@ (config :> id),
                 ids_config |-> IF id \in DOMAIN rh.ids_config THEN rh.ids_config
                                ELSE rh.ids_config @@ (id :> config),
                 runs |-> IF id \in DOMAIN rh.runs
                          THEN [rh.runs EXCEPT ![id] =
                                    InsertByBudget(@, <<inst, seed, budget>>)]
                          ELSE rh.runs @@ (id :> <<<<inst, seed, budget>>>>)]]

\* an add that gives every written record a fresh config id
RHAdd_FreshIds(rh, config, inst, seed, budget, cost, status, force_update) ==
    LET id == Cardinality(DOMAIN rh.ids_config) + 1
        k == RunKeyOf(id, inst, seed, budget)
        v == [cost |-> cost, status |-> status]
    IN  [ok |-> TRUE,
         rh |-> [data |-> rh.data @@ (k :> v),
                 ids |-> IF config \in DOMAIN rh.ids
                         THEN [rh.ids EXCEPT ![config] = id]
                         ELSE rh.ids @@ (config :> id),
                 ids_config |-> rh.ids_config @@ (id :> config),
                 runs |-> rh.runs @@ (id :> <<<<inst, seed, budget>>>>)]]

\* add(...): "ok" |-> the new store, or the rejection of a duplicate key
RHAdd(rh, config, inst, seed, budget, cost, status, force_update) ==
    LET id == ConfigId(rh, config)
        k == RunKeyOf(id, inst, seed, budget)
        v == [cost |-> cost, status |-> status]
    IN  IF k \in DOMAIN rh.data /\ ~force_update
        THEN [ok |-> FALSE, rh |-> rh]
        ELSE [ok |-> TRUE,
              rh |-> [data |-> IF k \in DOMAIN rh.data
                               THEN [rh.data EXCEPT ![k] = v]
                               ELSE rh.data @@ (k :> v),
                      ids |-> IF config \in DOMAIN rh.ids THEN rh.ids
                              ELSE rh.ids @@ (config :> id),
                      ids_config |-> IF id \in DOMAIN rh.ids_config THEN rh.ids_config
                                     ELSE rh.ids_config @@ (id :> config),
                      runs |-> IF id \in DOMAIN rh.runs
                               THEN [rh.runs EXCEPT ![id] =
                                         InsertByBudget(@, <<inst, seed, budget>>)]
                               ELSE rh.runs @@ (id :> <<<<inst, seed, budget>>>>)]]

\* get_all_configs()
GetAllConfigs(rh) == DOMAIN rh.ids

\* the RunKeys recorded for a configuration
KeysOf(rh, config) ==
    IF config \in DOMAIN rh.ids
    THEN { k \in DOMAIN rh.data : k[1] = rh.ids[config] }
    ELSE {}

\* get_runs_for_config(config) as the ordered listing it returns
RunsInOrder(rh, config) ==
    IF config \in DOMAIN rh.ids /\ rh.ids[config] \in DOMAIN rh.runs
    THEN rh.runs[rh.ids[config]]
    ELSE <<>>

\* get_runs_for_config(config): the InstanceSeedBudgetKeys of a configuration
GetRunsForConfig(rh, config) ==
    LET s == RunsInOrder(rh, config) IN { s[k] : k \in 1..Len(s) }

RECURSIVE SumOver(_, _)
SumOver(f, S) ==
    IF S = {} THEN 0
    ELSE LET x == CHOOSE y \in S : TRUE IN f[x].cost + SumOver(f, S \ {x})

\* sum_cost(config, instance_seed_budget_keys, run_history)
SumCost(rh, config, isbs) ==
    SumOver(rh.data, { k \in KeysOf(rh, config) : <<k[2], k[3], k[4]>> \in isbs })

\* get_cost(config): the mean over the configuration's records, capped runs
\* left out; the rational <<sum, n>>, and NaN == <<0, 0>> when there is none
\* (also for a configuration the store has never seen, None included).
NaN == <<0, 0>>
GetCost(rh, optconfig) ==
    IF IsNone(optconfig) THEN NaN
    ELSE LET ks == { k \in KeysOf(rh, Val(optconfig)) :
                         rh.data[k].status \notin {"CAPPED", "TIMEOUT"} }
         IN  <<SumOver(rh.data, ks), Cardinality(ks)>>

IsNaN(c) == c[2] = 0
\* a < b on costs; every comparison with NaN is false
CostLT(a, b) == (~IsNaN(a)) /\ (~IsNaN(b)) /\ RatLT(a, b)

\* --------------------------------------------------- Incumbent Comparator
\* a comparator that sums each configuration over its own contexts, shared
\* with the other or not, and that lets the challenger win a tie
CompareConfigs_OwnContexts(rh, inc, chal) ==
    LET inc_agg == SumCost(rh, inc, GetRunsForConfig(rh, inc))
        chal_agg == SumCost(rh, chal, GetRunsForConfig(rh, chal))
    IN  IF chal_agg <= inc_agg THEN Some(chal) ELSE Some(inc)

\* _compare_configs(incumbent, challenger, ...): Some(config) or None (undecided)
CompareConfigs(rh, inc, chal) ==
    LET shared == GetRunsForConfig(rh, inc) \cap GetRunsForConfig(rh, chal)
        inc_agg == SumCost(rh, inc, shared)
        chal_agg == SumCost(rh, chal, shared)
    IN  IF shared = {} THEN None
        ELSE IF chal_agg < inc_agg THEN Some(chal)
        ELSE IF inc_agg < chal_agg THEN Some(inc)
        ELSE None

\* ------------------------------------------------ Adaptive Capping Controller
SlackNum == 6
SlackDen == 5
\* _adapt_cutoff(challenger, incumbent, run_history, inc_sum_cost):
\* None is "no cutoff" (unbounded), Some(q) a cutoff of q seconds.
\* inc_sum_cost is Some(sum) or None for np.inf.
AdaptCutoff(obj, rh, challenger, inc, inc_sum) ==
    IF (~obj.adaptive_capping) \/ IsNone(inc) \/ IsNone(inc_sum) THEN None
    ELSE LET chal_sum == SumCost(rh, challenger, GetRunsForConfig(rh, challenger))
             raw == <<SlackNum * (Val(inc_sum) - chal_sum), SlackDen>>
             nonneg == IF raw[1] < 0 THEN <<0, 1>> ELSE raw
         IN  IF (~IsNone(obj.cutoff)) /\ RatLT(<<Val(obj.cutoff), 1>>, nonneg)
             THEN Some(<<Val(obj.cutoff), 1>>)
             ELSE Some(nonneg)

\* --------------------------------------------------------------- intensify
\* a ladder with the sign of the exponent lost: max_budget * eta^(R - i)
Budgets_PositiveExponent(obj) ==
    [k \in 1..(obj.max_sh_iter + 1) |->
        <<obj.max_budget * Pow(obj.eta[1], obj.max_sh_iter - (k - 1)),
          Pow(obj.eta[2], obj.max_sh_iter - (k - 1))>>]

\* budgets = max_budget * eta ** -linspace(max_sh_iter, 0, max_sh_iter + 1):
\* element i (0-based) is max_budget * eta^(-(R - i)), as a rational
Budgets(obj) ==
    [k \in 1..(obj.max_sh_iter + 1) |->
        <<obj.max_budget * Pow(obj.eta[2], obj.max_sh_iter - (k - 1)),
          Pow(obj.eta[1], obj.max_sh_iter - (k - 1))>>]

\* Python's s[a:b] on a list (0-based, clamped)
Slice(s, a, b) ==
    LET lo == Min2(a, Len(s))
        hi == Min2(b, Len(s))
    IN  IF hi <= lo THEN <<>> ELSE SubSeq(s, lo + 1, hi)

RECURSIVE Filter(_, _)
Filter(s, S) ==
    IF s = <<>> THEN <<>>
    ELSE IF Head(s) \in S THEN <<Head(s)>> \o Filter(Tail(s), S)
    ELSE Filter(Tail(s), S)

Range(s) == { s[k] : k \in 1..Len(s) }
\* the known challengers are dropped after the first init_chal are taken
SelectChallengers_FilterAfterSlice(obj, rh, chals) ==
    IF obj.n_seeds > 1 \/ obj.instance_order = "shuffle"
    THEN Slice(chals, 0, obj.init_chal)
    ELSE Filter(Slice(chals, 0, obj.init_chal), Range(chals) \ GetAllConfigs(rh))

\* the rung-0 challengers: challengers[:init_chal], or the first init_chal
\* challengers that are not in the run history
SelectChallengers(obj, rh, chals) ==
    IF obj.n_seeds > 1 \/ obj.instance_order = "shuffle"
    THEN Slice(chals, 0, obj.init_chal)
    ELSE Slice(Filter(chals, Range(chals) \ GetAllConfigs(rh)), 0, obj.init_chal)

\* all_instances[int(prev_budget):int(budgets[i])], or all of them when the
\* cutoff is the budget; i is 0-based
AvailableInsts(obj, bs, i) ==
    IF obj.cutoff_as_budget THEN obj.instances
    ELSE Slice(obj.instances, IF i > 0 THEN IntOf(bs[i]) ELSE 0, IntOf(bs[i + 1]))

\* the cut without its floor of one challenger
NextNChal_NoFloor(n, eta) == NpRound(<<n * eta[2], eta[1]>>)

\* max(1, int(np.round(len(curr_challengers) / self.eta)))
NextNChal(n, eta) == Max2(1, NpRound(<<n * eta[2], eta[1]>>))

\* list.remove(c): the list without the first occurrence of c
RECURSIVE RemoveFirst(_, _)
RemoveFirst(s, c) ==
    IF s = <<>> THEN <<>>
    ELSE IF Head(s) = c THEN Tail(s)
    ELSE <<Head(s)>> \o RemoveFirst(Tail(s), c)

\* the capped challengers are noted but never taken out of the list
RemoveAll_KeepsCapped(s, capped) == s

RECURSIVE RemoveAll(_, _)
RemoveAll(s, capped) ==
    IF capped = <<>> THEN s ELSE RemoveAll(RemoveFirst(s, Head(capped)), Tail(capped))

\* ------------------------------------------------------------------ _top_k
\* the keys of the dict config_costs, in insertion order
RECURSIVE DictKeys(_)
DictKeys(s) ==
    IF s = <<>> THEN <<>>
    ELSE LET front == DictKeys(SubSeq(s, 1, Len(s) - 1))
             x == s[Len(s)]
         IN  IF x \in Range(front) THEN front ELSE Append(front, x)
\* an unstable sort: a configuration moves in front of those of equal cost
RECURSIVE InsertByCost_TiesReversed(_, _, _)
InsertByCost_TiesReversed(rh, sorted, x) ==
    IF sorted = <<>> THEN <<x>>
    ELSE LET last == sorted[Len(sorted)]
         IN  IF ~CostLT(GetCost(rh, Some(last)), GetCost(rh, Some(x)))
             THEN Append(InsertByCost_TiesReversed(rh, SubSeq(sorted, 1, Len(sorted) - 1), x), last)
             ELSE Append(sorted, x)

\* sorted(config_costs, key=config_costs.get): stable, ascending
RECURSIVE InsertByCost(_, _, _)
InsertByCost(rh, sorted, x) ==
    IF sorted = <<>> THEN <<x>>
    ELSE LET last == sorted[Len(sorted)]
         IN  IF CostLT(GetCost(rh, Some(x)), GetCost(rh, Some(last)))
             THEN Append(InsertByCost(rh, SubSeq(sorted, 1, Len(sorted) - 1), x), last)
             ELSE Append(sorted, x)

RECURSIVE SortedByCost(_, _)
SortedByCost(rh, s) ==
    IF s = <<>> THEN <<>>
    ELSE InsertByCost(rh, SortedByCost(rh, SubSeq(s, 1, Len(s) - 1)), s[Len(s)])

\* the comparison of the key sets is left out of _top_k
KeysDiffer_Never(rh, configs) == FALSE

\* the key-set comparison of _top_k: some configuration was run on other
\* instance-seed-budget keys than configs[0]
KeysDiffer(rh, configs) ==
    \E k \in 1..Len(configs) :
        GetRunsForConfig(rh, configs[k]) # GetRunsForConfig(rh, configs[1])

\* _top_k(configs, run_history, k) for a non-empty list
TopK(rh, configs, k) == Slice(SortedByCost(rh, DictKeys(configs)), 0, k)

\* =================================================================== state
VARIABLES
    sh,               \* the SuccessiveHalving object: the fields __init__ sets
    run_history,      \* the Evaluation History Store
    budget_exhausted, \* Stats: the global optimization budget is used up
    incumbent,        \* the driver's incumbent: None or Some(config)
    ncalls,           \* intensify calls started so far
    pc,               \* "idle" | "rung" | "race" | "raised" | "config_error"
    call,             \* arguments of the running call and values fixed at its start
    curr_challengers, \* list of configurations still in the race
    capped_configs,   \* _race_challengers: challengers capped in this rung
    budgets,          \* the rung budgets of this call
    i,                \* rung index of the for loop (0-based)
    available_insts,  \* instance-seed pairs of the rung
    next_n_chal,      \* k of the rung's top-k cut
    first_run,
    ci,               \* position in the challenger loop (1-based)
    ii,               \* position in the instance loop (1-based)
    ta_time,          \* self._ta_time
    num_run,          \* self._num_run
    chall_indx,       \* self._chall_indx
    result,           \* outcome of the last finished call
    events,           \* history: what the running / last call did, in order
    rungs             \* history: per finished rung, challengers entered/uncapped/kept

vars == <<sh, run_history, budget_exhausted, incumbent, ncalls, pc, call,
          curr_challengers, capped_configs, budgets, i, available_insts,
          next_n_chal, first_run, ci, ii, ta_time, num_run, chall_indx,
          result, events, rungs>>

loopVars == <<curr_challengers, capped_configs, budgets, i, available_insts,
              next_n_chal, first_run, ci, ii>>

Configs == 1..MaxConf
Costs == 1..MaxCost
\* hard runtime cutoff handed to the constructor, when one is given
HardCutoff == 3
\* duration of one target-algorithm run, in seconds
Dur == 1

RECURSIVE SeqsNoDup(_, _)
SeqsNoDup(S, n) ==
    IF n = 0 THEN {<<>>}
    ELSE LET shorter == SeqsNoDup(S, n - 1)
         IN  shorter \cup { Append(q, x) : q \in { r \in shorter : Len(r) = n - 1 },
                                           x \in S }
\* challenger lists: non-empty sequences of pairwise distinct configurations
ChallengerLists ==
    { q \in SeqsNoDup(Configs, MaxChal) :
        Len(q) >= 1 /\ \A a, b \in 1..Len(q) : a # b => q[a] # q[b] }

\* Configurations are interchangeable labels: a configuration the store has
\* not seen is named by the least unused number, so that lists that differ
\* only in the names of new configurations are enumerated once.
WellNamed(chals, known) ==
    \A k \in 1..Len(chals) :
        chals[k] \in known
        \/ chals[k] = 1 + Cardinality(known \cup { chals[j] : j \in 1..(k - 1) })
        \/ \E j \in 1..(k - 1) : chals[j] = chals[k]

NoResult == [kind |-> "none", via |-> "none", incumbent |-> None, inc_perf |-> NaN,
             given |-> None, given_perf |-> NaN, exc |-> "none"]

NoCall == [challengers |-> <<>>, time_bound |-> 0, inc_sum_cost |-> None,
           inc_perf0 |-> NaN, rung0 |-> <<>>]

InitWith(obj) ==
    /\ sh = obj
    /\ run_history = EmptyHistory
    /\ budget_exhausted = FALSE
    /\ incumbent = None
    /\ ncalls = 0
    /\ pc = IF obj.error = "none" THEN "idle" ELSE "config_error"
    /\ call = NoCall
    /\ curr_challengers = <<>>
    /\ capped_configs = <<>>
    /\ budgets = <<>>
    /\ i = 0
    /\ available_insts = <<>>
    /\ next_n_chal = 0
    /\ first_run = TRUE
    /\ ci = 1
    /\ ii = 1
    /\ ta_time = 0
    /\ num_run = 0
    /\ chall_indx = 0
    /\ result = NoResult
    /\ events = <<>>
    /\ rungs = <<>>

\* ----------------------------------------------------- leaving intensify
\* `return new_incumbent, inc_perf`; the driver keeps what it is handed back
Return(via, new_incumbent, inc_perf) ==
    /\ result' = [kind |-> "returned", via |-> via, incumbent |-> new_incumbent,
                  inc_perf |-> inc_perf, given |-> incumbent,
                  given_perf |-> call.inc_perf0, exc |-> "none"]
    /\ incumbent' = new_incumbent
    /\ pc' = "idle"

\* an exception leaves intensify
Raise(exc) ==
    /\ result' = [kind |-> "raised", via |-> "exception", incumbent |-> None,
                  inc_perf |-> NaN,
                  given |-> incumbent, given_perf |-> call.inc_perf0, exc |-> exc]
    /\ pc' = "raised"
    /\ UNCHANGED incumbent

Event(kind, config, pair) ==
    [kind |-> kind, config |-> config, rung |-> i, pair |-> pair, status |-> "none"]

\* ------------------------------------------------- intensify, lines 239-278
IntensifyBegin(chals, tb, perm) ==
    /\ pc = "idle"
    /\ ncalls < MaxCalls
    /\ WellNamed(chals, GetAllConfigs(run_history))
    /\ LET obj == IF sh.instance_order = "shuffle"
                  THEN [sh EXCEPT !.instances =
                            [k \in 1..Len(sh.instances) |-> sh.instances[perm[k]]]]
                  ELSE sh
           rung0 == SelectChallengers(obj, run_history, chals)
           inc_sum == IF IsNone(incumbent) THEN None
                      ELSE Some(SumCost(run_history, Val(incumbent),
                                        GetRunsForConfig(run_history, Val(incumbent))))
       IN  /\ sh' = obj
           /\ call' = [challengers |-> chals, time_bound |-> tb,
                       inc_sum_cost |-> inc_sum,
                       inc_perf0 |-> GetCost(run_history, incumbent),
                       rung0 |-> rung0]
           /\ curr_challengers' = rung0
           /\ events' = <<>>
           /\ rungs' = <<>>
           /\ ta_time' = 0
           /\ num_run' = 0
           /\ chall_indx' = 0
           /\ first_run' = TRUE
           /\ i' = 0
           /\ ncalls' = ncalls + 1
           /\ IF obj.max_sh_iter = MinusInf
              THEN \* np.linspace with -inf samples
                   /\ budgets' = <<>>
                   /\ Raise("OverflowError")
              ELSE IF obj.max_sh_iter < 0 - 1
              THEN \* np.linspace with a negative number of samples
                   /\ budgets' = <<>>
                   /\ Raise("ValueError")
              ELSE /\ budgets' = Budgets(obj)
                   /\ pc' = "rung"
                   /\ UNCHANGED <<result, incumbent>>
    /\ UNCHANGED <<run_history, budget_exhausted, capped_configs,
                   available_insts, next_n_chal, ci, ii>>

\* ------------------------------------- the rung loop's head, lines 280-290
RungBegin ==
    /\ pc = "rung"
    /\ i < Len(budgets)
    /\ available_insts' = AvailableInsts(sh, budgets, i)
    /\ next_n_chal' = NextNChal(Len(curr_challengers), sh.eta)
    /\ capped_configs' = <<>>
    /\ ci' = 1
    /\ ii' = 1
    /\ pc' = "race"
    /\ UNCHANGED <<sh, run_history, budget_exhausted, incumbent, ncalls, call,
                   curr_challengers, budgets, i, first_run, ta_time, num_run,
                   chall_indx, result, events, rungs>>

\* --------------------------------------- _race_challengers, lines 388-433
InRace ==
    /\ pc = "race"
    /\ ci <= Len(curr_challengers)
    /\ ii <= Len(available_insts)

Cutoff ==
    AdaptCutoff(sh, run_history, curr_challengers[ci], incumbent, call.inc_sum_cost)

\* the budget of the run's key: the cutoff handed to the Evaluator when the
\* cutoff is the budget, else the RunKey default 0
KeyBudget == IF sh.cutoff_as_budget THEN budgets[i + 1] ELSE <<0, 1>>

\* capped=(self.cutoff is not None) and (cutoff < self.cutoff)
CappedFlag(obj, cutoff) ==
    (~IsNone(obj.cutoff)) /\ (~IsNone(cutoff))
    /\ RatLT(Val(cutoff), <<Val(obj.cutoff), 1>>)

\* lines 399-402: the adaptive cutoff is used up, stop this challenger
AdaptStop ==
    /\ InRace
    /\ (~IsNone(Cutoff)) /\ Val(Cutoff)[1] <= 0
    /\ ii' = Len(available_insts) + 1
    /\ events' = Append(events, Event("stop", curr_challengers[ci], available_insts[ii]))
    /\ UNCHANGED <<sh, run_history, budget_exhausted, incumbent, ncalls, pc, call,
                   curr_challengers, capped_configs, budgets, i, available_insts,
                   next_n_chal, first_run, ci, ta_time, num_run, chall_indx,
                   result, rungs>>

CanRun == InRace /\ ~((~IsNone(Cutoff)) /\ Val(Cutoff)[1] <= 0)

\* outcomes of a run that ends without an exception
RunOutcomes ==
    [status : {"SUCCESS"}, cost : Costs]

\* a run that did not succeed is not recorded: its failure leaves intensify
RunTarget_FailureRaises(o) ==
    /\ CanRun
    /\ ~budget_exhausted
    /\ LET c == curr_challengers[ci]
           pair == available_insts[ii]
           w == RHAdd(run_history, c, pair[1], pair[2], KeyBudget, o.cost, o.status, FALSE)
       IN  IF o.status # "SUCCESS"
           THEN /\ events' = Append(events, [Event("run", c, pair) EXCEPT !.status = o.status])
                /\ Raise("TargetAlgorithmFailed")
                /\ UNCHANGED <<run_history, ta_time, num_run, ii>>
           ELSE IF w.ok
           THEN /\ run_history' = w.rh
                /\ ta_time' = ta_time + Dur
                /\ num_run' = num_run + 1
                /\ ii' = ii + 1
                /\ events' = Append(events,
                                    [Event("run", c, pair) EXCEPT !.status = o.status])
                /\ UNCHANGED <<pc, result, incumbent>>
           ELSE /\ events' = Append(events, Event("duplicate", c, pair))
                /\ Raise("DuplicateRunError")
                /\ UNCHANGED <<run_history, ta_time, num_run, ii>>
    /\ UNCHANGED <<sh, budget_exhausted, ncalls, call, curr_challengers,
                   capped_configs, budgets, i, available_insts, next_n_chal,
                   first_run, ci, chall_indx, rungs>>

\* lines 412-422: the Evaluator runs the challenger and records the run
RunTarget(o) ==
    /\ CanRun
    /\ ~budget_exhausted
    /\ LET c == curr_challengers[ci]
           pair == available_insts[ii]
           w == RHAdd(run_history, c, pair[1], pair[2], KeyBudget, o.cost, o.status, FALSE)
       IN  IF w.ok
           THEN /\ run_history' = w.rh
                /\ ta_time' = ta_time + Dur
                /\ num_run' = num_run + 1
                /\ ii' = ii + 1
                /\ events' = Append(events,
                                    [Event("run", c, pair) EXCEPT !.status = o.status])
                /\ UNCHANGED <<pc, result, incumbent>>
           ELSE /\ events' = Append(events, Event("duplicate", c, pair))
                /\ Raise("DuplicateRunError")
                /\ UNCHANGED <<run_history, ta_time, num_run, ii>>
    /\ UNCHANGED <<sh, budget_exhausted, ncalls, call, curr_challengers,
                   capped_configs, budgets, i, available_insts, next_n_chal,
                   first_run, ci, chall_indx, rungs>>

\* lines 424-429: the run was capped; the record is written, the challenger
\* is noted and its instance loop left
RunCapped ==
    /\ CanRun
    /\ ~budget_exhausted
    /\ CappedFlag(sh, Cutoff)
    /\ LET c == curr_challengers[ci]
           pair == available_insts[ii]
           w == RHAdd(run_history, c, pair[1], pair[2], KeyBudget, MaxCost, "CAPPED", FALSE)
       IN  IF w.ok
           THEN /\ run_history' = w.rh
                /\ capped_configs' = Append(capped_configs, c)
                /\ ii' = Len(available_insts) + 1
                /\ events' = Append(events,
                                    [Event("capped", c, pair) EXCEPT !.status = "CAPPED"])
                /\ UNCHANGED <<pc, result, incumbent>>
           ELSE /\ events' = Append(events, Event("duplicate", c, pair))
                /\ Raise("DuplicateRunError")
                /\ UNCHANGED <<run_history, capped_configs, ii>>
    /\ UNCHANGED <<sh, budget_exhausted, ncalls, call, curr_challengers,
                   budgets, i, available_insts, next_n_chal, first_run, ci,
                   ta_time, num_run, chall_indx, rungs>>

\* the exhausted budget is not caught: the exception leaves intensify
RunExhausted_Propagates ==
    /\ CanRun
    /\ budget_exhausted' = TRUE
    /\ events' = Append(events, Event("exhausted", curr_challengers[ci], available_insts[ii]))
    /\ Raise("BudgetExhaustedException")
    /\ UNCHANGED <<sh, run_history, ncalls, call, loopVars, ta_time, num_run,
                   chall_indx, rungs>>

\* lines 309-314: the Evaluator refuses the run, the optimization budget is
\* used up; intensify hands back the incumbent it was given
RunExhausted ==
    /\ CanRun
    /\ budget_exhausted' = TRUE
    /\ events' = Append(events, Event("exhausted", curr_challengers[ci], available_insts[ii]))
    /\ Return("exhausted", incumbent, GetCost(run_history, incumbent))
    /\ UNCHANGED <<sh, run_history, ncalls, call, loopVars, ta_time, num_run,
                   chall_indx, rungs>>

\* lines 431-433: the instance loop of a challenger is over
ChallengerDone ==
    /\ pc = "race"
    /\ ci <= Len(curr_challengers)
    /\ ii > Len(available_insts)
    /\ chall_indx' = IF first_run THEN chall_indx + 1 ELSE chall_indx
    /\ ci' = ci + 1
    /\ ii' = 1
    /\ UNCHANGED <<sh, run_history, budget_exhausted, incumbent, ncalls, pc, call,
                   curr_challengers, capped_configs, budgets, i, available_insts,
                   next_n_chal, first_run, ta_time, num_run, result, events, rungs>>

\* history record of a finished rung: the challengers that entered it, those
\* left after the capped ones are removed, those kept by the top-k cut (cut
\* is FALSE when the race ended before the cut), and the rung's pairs
RungRecord(cut, uncapped, kept) ==
    [entered |-> curr_challengers, uncapped |-> uncapped, kept |-> kept,
     cut |-> cut, insts |-> available_insts]

\* the rung's end without the test for an empty list: _top_k indexes
\* configs[0] of an empty list
RaceEnd_NoEmptyCheck ==
    /\ pc = "race"
    /\ ci > Len(curr_challengers)
    /\ LET uncapped == RemoveAll(curr_challengers, capped_configs)
       IN  IF uncapped = <<>>
           THEN /\ Raise("IndexError")
                /\ curr_challengers' = uncapped
                /\ rungs' = Append(rungs, RungRecord(FALSE, uncapped, uncapped))
                /\ UNCHANGED <<i, first_run>>
           ELSE IF KeysDiffer(run_history, uncapped)
           THEN /\ Raise("AssertionError")
                /\ curr_challengers' = uncapped
                /\ UNCHANGED <<i, first_run, rungs>>
           ELSE /\ curr_challengers' = TopK(run_history, uncapped, next_n_chal)
                /\ rungs' = Append(rungs, RungRecord(TRUE, uncapped, curr_challengers'))
                /\ first_run' = FALSE
                /\ i' = i + 1
                /\ pc' = "rung"
                /\ UNCHANGED <<result, incumbent>>
    /\ UNCHANGED <<sh, run_history, budget_exhausted, ncalls, call, capped_configs,
                   budgets, available_insts, next_n_chal, ci, ii, ta_time,
                   num_run, chall_indx, events>>

\* when every challenger was capped, the first capped one is handed back
RaceEnd_AllCappedReturnsCapped ==
    /\ pc = "race"
    /\ ci > Len(curr_challengers)
    /\ LET uncapped == RemoveAll(curr_challengers, capped_configs)
       IN  IF uncapped = <<>>
           THEN /\ IF capped_configs = <<>>
                   THEN Return("all_capped", incumbent, GetCost(run_history, incumbent))
                   ELSE Return("all_capped", Some(capped_configs[1]),
                               GetCost(run_history, Some(capped_configs[1])))
                /\ curr_challengers' = uncapped
                /\ rungs' = Append(rungs, RungRecord(FALSE, uncapped, uncapped))
                /\ UNCHANGED <<i, first_run>>
           ELSE IF KeysDiffer(run_history, uncapped)
           THEN /\ Raise("AssertionError")
                /\ curr_challengers' = uncapped
                /\ UNCHANGED <<i, first_run, rungs>>
           ELSE /\ curr_challengers' = TopK(run_history, uncapped, next_n_chal)
                /\ rungs' = Append(rungs, RungRecord(TRUE, uncapped, curr_challengers'))
                /\ first_run' = FALSE
                /\ i' = i + 1
                /\ pc' = "rung"
                /\ UNCHANGED <<result, incumbent>>
    /\ UNCHANGED <<sh, run_history, budget_exhausted, ncalls, call, capped_configs,
                   budgets, available_insts, next_n_chal, ci, ii, ta_time,
                   num_run, chall_indx, events>>

\* lines 435-438, 302-307, 316-319: the rung is over
RaceEnd ==
    /\ pc = "race"
    /\ ci > Len(curr_challengers)
    /\ LET uncapped == RemoveAll(curr_challengers, capped_configs)
       IN  IF uncapped = <<>>
           THEN /\ Return("all_capped", incumbent, GetCost(run_history, incumbent))
                /\ curr_challengers' = uncapped
                /\ rungs' = Append(rungs, RungRecord(FALSE, uncapped, uncapped))
                /\ UNCHANGED <<i, first_run>>
           ELSE IF KeysDiffer(run_history, uncapped)
           THEN /\ Raise("AssertionError")
                /\ curr_challengers' = uncapped
                /\ UNCHANGED <<i, first_run, rungs>>
           ELSE /\ curr_challengers' = TopK(run_history, uncapped, next_n_chal)
                /\ rungs' = Append(rungs, RungRecord(TRUE, uncapped, curr_challengers'))
                /\ first_run' = FALSE
                /\ i' = i + 1
                /\ pc' = "rung"
                /\ UNCHANGED <<result, incumbent>>
    /\ UNCHANGED <<sh, run_history, budget_exhausted, ncalls, call, capped_configs,
                   budgets, available_insts, next_n_chal, ci, ii, ta_time,
                   num_run, chall_indx, events>>

\* ------------------------------------------- after the loop, lines 321-349
\* the first race's winner is dropped: the absent incumbent is handed back
Finish_NoFirstIncumbent ==
    /\ pc = "rung"
    /\ i >= Len(budgets)
    /\ IF curr_challengers = <<>>
       THEN Raise("IndexError")
       ELSE LET best_challenger == curr_challengers[1]
            IN  IF IsNone(incumbent)
                THEN Return("finished", incumbent,
                            GetCost(run_history, incumbent))
                ELSE LET cmp == CompareConfigs(run_history, Val(incumbent), best_challenger)
                         new_incumbent == IF IsNone(cmp) THEN incumbent ELSE cmp
                     IN  Return("finished", new_incumbent,
                                GetCost(run_history, new_incumbent))
    /\ UNCHANGED <<sh, run_history, budget_exhausted, ncalls, call, loopVars,
                   ta_time, num_run, chall_indx, events, rungs>>

\* the comparator's answer is ignored: the incumbent is always kept
Finish_KeepsIncumbent ==
    /\ pc = "rung"
    /\ i >= Len(budgets)
    /\ IF curr_challengers = <<>>
       THEN Raise("IndexError")
       ELSE LET best_challenger == curr_challengers[1]
            IN  IF IsNone(incumbent)
                THEN Return("finished", Some(best_challenger),
                            GetCost(run_history, Some(best_challenger)))
                ELSE LET cmp == CompareConfigs(run_history, Val(incumbent), best_challenger)
                         new_incumbent == incumbent
                     IN  Return("finished", new_incumbent,
                                GetCost(run_history, new_incumbent))
    /\ UNCHANGED <<sh, run_history, budget_exhausted, ncalls, call, loopVars,
                   ta_time, num_run, chall_indx, events, rungs>>

\* lines 321-349: the last survivor against the incumbent
Finish ==
    /\ pc = "rung"
    /\ i >= Len(budgets)
    /\ IF curr_challengers = <<>>
       THEN Raise("IndexError")
       ELSE LET best_challenger == curr_challengers[1]
            IN  IF IsNone(incumbent)
                THEN Return("finished", Some(best_challenger),
                            GetCost(run_history, Some(best_challenger)))
                ELSE LET cmp == CompareConfigs(run_history, Val(incumbent), best_challenger)
                         new_incumbent == IF IsNone(cmp) THEN incumbent ELSE cmp
                     IN  Return("finished", new_incumbent,
                                GetCost(run_history, new_incumbent))
    /\ UNCHANGED <<sh, run_history, budget_exhausted, ncalls, call, loopVars,
                   ta_time, num_run, chall_indx, events, rungs>>

\* =========================================================== specification
\* halving factors handed to the constructor
Etas == {<<1, 2>>, <<1, 1>>, <<5, 4>>, <<2, 1>>}
InstanceOrders == {"None", "shuffle_once", "shuffle"}

ConstructorArgs ==
    [n_inst : 1..MaxInst,
     cutoff : {None, Some(HardCutoff)},
     deterministic : BOOLEAN,
     min_budget : {None, Some(2)},
     max_budget : {None, Some(0), Some(1), Some(2)},
     eta : Etas,
     init_chal : {None, Some(MaxChal)},
     run_obj_time : BOOLEAN,
     n_seeds : {None, Some(2)},
     instance_order : InstanceOrders]

ShufflesAt(obj) ==
    IF obj.instance_order = "shuffle" THEN Perms(Len(obj.instances))
    ELSE {[k \in 1..Len(obj.instances) |-> k]}

\* constructions whose instance-seed list has at most MaxPairs pairs
BoundedArgs ==
    { a \in ConstructorArgs :
        a.n_inst * (IF a.deterministic \/ IsNone(a.n_seeds) THEN 1 ELSE Val(a.n_seeds))
            <= MaxPairs }

Init ==
    \E a \in BoundedArgs :
        \E perm \in (IF a.instance_order = "shuffle_once" THEN Perms(a.n_inst)
                     ELSE {[k \in 1..a.n_inst |-> k]}) :
            InitWith(Construct(a, perm))

Next ==
    \/ \E chals \in ChallengerLists, tb \in 1..MaxTimeBound, perm \in ShufflesAt(sh) :
           IntensifyBegin(chals, tb, perm)
    \/ RungBegin
    \/ AdaptStop
    \/ \E o \in RunOutcomes : RunTarget(o)
    \/ RunCapped
    \/ RunExhausted
    \/ ChallengerDone
    \/ RaceEnd
    \/ Finish

Spec == Init /\ [][Next]_vars

\* ----------------------------------------------- the ladder specification
\* The budget ladder alone, over a wider range of budgets and halving
\* factors: objects in the cutoff-as-budget regime (one instance, quality
\* objective), and the first lines of one intensify call.
LadderEtas == {<<2, 1>>, <<3, 1>>, <<3, 2>>, <<5, 2>>}

LadderArgs ==
    { a \in [n_inst : {1}, cutoff : {None}, deterministic : {TRUE},
             min_budget : { Some(m) : m \in 1..LadderMax },
             max_budget : { Some(m) : m \in 1..LadderMax },
             eta : LadderEtas, init_chal : {None}, run_obj_time : {FALSE},
             n_seeds : {None}, instance_order : {"None"}] :
        Val(a.min_budget) <= Val(a.max_budget) }

LadderInit == \E a \in LadderArgs : InitWith(Construct(a, <<1>>))

LadderNext ==
    \E chals \in { q \in ChallengerLists : Len(q) = 1 } : IntensifyBegin(chals, 1, <<1>>)

SpecLadder == LadderInit /\ [][LadderNext]_vars

\* ------------------------------------------- the failed-run specification
\* Races in which a run may also end as TIMEOUT, CRASHED or MEMOUT, on
\* objects with the halving factor 2 and the default ladder.
FailOutcomes ==
    [status : {"SUCCESS", "TIMEOUT", "CRASHED", "MEMOUT"}, cost : Costs]

FailArgs ==
    { a \in BoundedArgs :
        /\ a.eta = <<2, 1>>
        /\ a.deterministic
        /\ IsNone(a.n_seeds)
        /\ IsNone(a.min_budget)
        /\ IsNone(a.max_budget)
        /\ a.init_chal = Some(MaxChal)
        /\ a.cutoff = Some(HardCutoff)
        /\ a.instance_order = "None" }

FailInit == \E a \in FailArgs : InitWith(Construct(a, [k \in 1..a.n_inst |-> k]))

FailNext ==
    \/ \E chals \in ChallengerLists, tb \in 1..MaxTimeBound, perm \in ShufflesAt(sh) :
           IntensifyBegin(chals, tb, perm)
    \/ RungBegin
    \/ AdaptStop
    \/ \E o \in FailOutcomes : RunTarget(o)
    \/ RunCapped
    \/ RunExhausted
    \/ ChallengerDone
    \/ RaceEnd
    \/ Finish

SpecFail == FailInit /\ [][FailNext]_vars

\* ------------------------------------------- the seeded-store specification
\* Races on a store that already holds evaluations made outside intensify:
\* the caller hands its own run history to every call, and eval_challenger
\* runs a configuration and adds the result to it.
SeededArgs ==
    { a \in BoundedArgs :
        /\ a.eta = <<2, 1>>
        /\ IsNone(a.n_seeds)
        /\ a.instance_order = "None" }

SeededInit == \E a \in SeededArgs : InitWith(Construct(a, [k \in 1..a.n_inst |-> k]))

\* eval_challenger(run_info, taf, stats, runhistory): before the first call,
\* configuration 1 is run on one of the pairs and recorded; the caller may
\* take it as its incumbent
EvalChallenger(pair, cost, as_incumbent) ==
    /\ pc = "idle"
    /\ ncalls = 0
    /\ ~budget_exhausted
    /\ LET w == RHAdd(run_history, 1, pair[1], pair[2], <<0, 1>>, cost, "SUCCESS", FALSE)
       IN  /\ w.ok
           /\ run_history' = w.rh
    /\ incumbent' = IF as_incumbent THEN Some(1) ELSE incumbent
    /\ UNCHANGED <<sh, budget_exhausted, ncalls, pc, call, loopVars, ta_time,
                   num_run, chall_indx, result, events, rungs>>

SeededNext ==
    \/ \E pair \in Range(sh.instances), cost \in Costs, as_incumbent \in BOOLEAN :
           EvalChallenger(pair, cost, as_incumbent)
    \/ \E chals \in ChallengerLists, tb \in 1..MaxTimeBound, perm \in ShufflesAt(sh) :
           IntensifyBegin(chals, tb, perm)
    \/ RungBegin
    \/ AdaptStop
    \/ \E o \in RunOutcomes : RunTarget(o)
    \/ RunCapped
    \/ RunExhausted
    \/ ChallengerDone
    \/ RaceEnd
    \/ Finish

SpecSeeded == SeededInit /\ [][SeededNext]_vars

\* ------------------------------------------------ the store specification
\* The History Store alone: a sequence of add operations, forced or not, on
\* a store that starts empty.  events is the log of the operations, each
\* with the store it was applied to.
MaxAdds == 3
StoreConfigs == {1, 2}
StoreBudgets == {<<1, 1>>, <<2, 1>>}
StoreCosts == {1, 2}

StoreOps ==
    [config : StoreConfigs, inst : {1, 2}, seed : {1}, budget : StoreBudgets,
     cost : StoreCosts, status : {"SUCCESS"}, force_update : BOOLEAN]

StoreOwner ==
    [n_inst |-> 1, cutoff |-> None, deterministic |-> TRUE, min_budget |-> Some(1),
     max_budget |-> Some(2), eta |-> <<2, 1>>, init_chal |-> None,
     run_obj_time |-> FALSE, n_seeds |-> None, instance_order |-> "None"]

StoreInit == InitWith(Construct(StoreOwner, <<1>>))

\* runhistory.add(config=..., cost=..., status=..., instance_id=..., seed=...,
\*                budget=..., force_update=...)
StoreAdd(op) ==
    /\ Len(events) < MaxAdds
    /\ LET w == RHAdd(run_history, op.config, op.inst, op.seed, op.budget,
                      op.cost, op.status, op.force_update)
       IN  /\ run_history' = w.rh
           /\ events' = Append(events,
                               [kind |-> IF w.ok THEN "added" ELSE "DuplicateRunError",
                                op |-> op, before |-> run_history])
    /\ UNCHANGED <<sh, budget_exhausted, incumbent, ncalls, pc, call, loopVars,
                   ta_time, num_run, chall_indx, result, rungs>>

StoreNext == \E op \in StoreOps : StoreAdd(op)

SpecStore == StoreInit /\ [][StoreNext]_vars

\* the store an operation of the log left behind
StoreAfter(n) == IF n = Len(events) THEN run_history ELSE events[n + 1].before
\* --------------------------------------- the initial-design specification
\* InitialDesign.__init__(scenario, configs, n_configs,
\* n_configs_per_hyperparameter, max_config_ratio): the numbers are Optional
\* rationals, configs an Optional list; the result is the exception that
\* leaves the constructor ("none" when it returns) and self.n_configs
InitialDesignInit(scenario, configs, n_configs, n_configs_per_hyperparameter, max_config_ratio) ==
    LET n_params == scenario.n_params
        chosen ==
            IF ~IsNone(configs) THEN [error |-> "none", n |-> <<Len(Val(configs)), 1>>]
            ELSE IF ~IsNone(n_configs) THEN [error |-> "none", n |-> Val(n_configs)]
            ELSE IF ~IsNone(n_configs_per_hyperparameter)
            THEN IF IsNone(max_config_ratio)
                 THEN [error |-> "TypeError", n |-> <<0, 1>>]
                 ELSE LET per == Val(n_configs_per_hyperparameter)
                          rat == Val(max_config_ratio)
                          a == <<per[1] * n_params, per[2]>>
                          b == <<rat[1] * scenario.n_trials, rat[2]>>
                          least == IF RatLE(a, b) THEN a ELSE b
                          most == IF RatLE(least, <<1, 1>>) THEN <<1, 1>> ELSE least
                      IN  [error |-> "none", n |-> <<IntOf(most), 1>>]
            ELSE [error |-> "ValueError_none_given", n |-> <<0, 1>>]
    IN  IF chosen.error # "none" THEN [error |-> chosen.error, n_configs |-> <<0, 1>>]
        ELSE IF RatLT(<<scenario.n_trials, 1>>, chosen.n)
        THEN [error |-> "ValueError_n_trials", n_configs |-> <<0, 1>>]
        ELSE [error |-> "none", n_configs |-> chosen.n]

SobolMaxDim == 21201

\* SobolInitialDesign.__init__(scenario, configs, n_configs_per_hyperparameter,
\* max_config_ratio, n_configs): super().__init__ is called positionally
SobolInitialDesignInit(scenario, configs, n_configs_per_hyperparameter, max_config_ratio, n_configs) ==
    IF scenario.n_params > SobolMaxDim
    THEN [error |-> "ValueError_dimensions", n_configs |-> <<0, 1>>]
    ELSE InitialDesignInit(scenario, configs, n_configs_per_hyperparameter,
                           max_config_ratio, n_configs)

\* BlackBoxFacade.get_initial_design(scenario, configs=, n_configs=,
\* n_configs_per_hyperparamter=, max_config_ratio=)
GetInitialDesign(scenario, configs, n_configs, n_configs_per_hyperparamter, max_config_ratio) ==
    SobolInitialDesignInit(scenario, configs, n_configs_per_hyperparamter,
                           max_config_ratio, n_configs)

MaxNConfigs == 5
DesignScenarios == [n_params : {1, 2}, n_trials : {4, 50}]
DesignArgs ==
    [configs : {None, Some(<<>>), Some(<<1, 2>>)},
     n_configs : {None} \cup { Some(<<k, 1>>) : k \in 0..MaxNConfigs },
     n_configs_per_hyperparameter : {None, Some(<<1, 1>>), Some(<<10, 1>>)},
     max_config_ratio : {Some(<<1, 4>>), Some(<<1, 1>>)}]

DesignInit == InitWith(Construct(StoreOwner, <<1>>))

\* SobolInitialDesign(scenario, configs, n_configs_per_hyperparameter,
\* max_config_ratio, n_configs); events is the log of the constructions
ConstructSobol(scenario, a) ==
    /\ events = <<>>
    /\ events' = <<[kind |-> "SobolInitialDesign", scenario |-> scenario, args |-> a,
                    design |-> SobolInitialDesignInit(scenario, a.configs,
                                   a.n_configs_per_hyperparameter,
                                   a.max_config_ratio, a.n_configs)]>>
    /\ UNCHANGED <<sh, run_history, budget_exhausted, incumbent, ncalls, pc, call,
                   loopVars, ta_time, num_run, chall_indx, result, rungs>>

\* BlackBoxFacade.get_initial_design(scenario, **a)
FacadeInitialDesign(scenario, a) ==
    /\ events = <<>>
    /\ events' = <<[kind |-> "get_initial_design", scenario |-> scenario, args |-> a,
                    design |-> GetInitialDesign(scenario, a.configs, a.n_configs,
                                   a.n_configs_per_hyperparameter,
                                   a.max_config_ratio)]>>
    /\ UNCHANGED <<sh, run_history, budget_exhausted, incumbent, ncalls, pc, call,
                   loopVars, ta_time, num_run, chall_indx, result, rungs>>

DesignNext ==
    \/ \E scenario \in DesignScenarios, a \in DesignArgs : ConstructSobol(scenario, a)
    \/ \E scenario \in DesignScenarios, a \in DesignArgs : FacadeInitialDesign(scenario, a)

SpecDesign == DesignInit /\ [][DesignNext]_vars

\* ================================================================== claims
\* C2: for eta > 1 and min_budget <= max_budget the rung budgets of a call
\* are R + 1 values, R the largest integer with eta^R <= max/min; each is
\* smaller than the next, and the last one is max_budget itself.
C2_LadderIncreasing ==
    (pc = "rung" /\ sh.min_budget <= sh.max_budget) =>
        /\ Len(budgets) >= 1
        /\ RatLE(RatPow(sh.eta, Len(budgets) - 1), <<sh.max_budget, sh.min_budget>>)
        /\ RatLT(<<sh.max_budget, sh.min_budget>>, RatPow(sh.eta, Len(budgets)))
        /\ \A k \in 1..(Len(budgets) - 1) : RatLT(budgets[k], budgets[k + 1])
        /\ budgets[Len(budgets)] = <<sh.max_budget, 1>>

\* C2 witness: a ladder of four rungs, 1, 2, 4, 8
C2_Witness ==
    /\ pc = "rung"
    /\ sh.eta = <<2, 1>> /\ sh.min_budget = 1 /\ sh.max_budget = 8
    /\ Len(budgets) = 4
    /\ \A k \in 1..4 : RatEQ(budgets[k], <<Pow(2, k - 1), 1>>)

IsEvaluation(e) == e.kind \in {"run", "capped", "duplicate", "exhausted"}

\* C3 (as stated): a challenger whose adaptive cutoff is zero or negative is
\* not evaluated further in that rung, is not among the rung's survivors and
\* is never the winner of the race.
C3_Original ==
    \A n \in 1..Len(events) :
        events[n].kind = "stop" =>
            /\ \A m \in (n + 1)..Len(events) :
                   ~(events[m].config = events[n].config
                     /\ events[m].rung = events[n].rung
                     /\ IsEvaluation(events[m]))
            /\ \A k \in 1..Len(rungs) :
                   (k = events[n].rung + 1) =>
                       /\ events[n].config \notin Range(rungs[k].uncapped)
                       /\ events[n].config \notin Range(rungs[k].kept)
            /\ (pc = "idle" /\ result.via = "finished") =>
                   result.incumbent # Some(events[n].config)

C5_CappedDropped ==
    \A n \in 1..Len(events) :
        events[n].kind = "capped" =>
               /\ \A m \in (n + 1)..Len(events) :
                      events[m].config # events[n].config
               /\ \A k \in 1..Len(rungs) :
                      (k >= events[n].rung + 1) =>
                          /\ events[n].config \notin Range(rungs[k].uncapped)
                          /\ events[n].config \notin Range(rungs[k].kept)
               /\ (Len(rungs) >= events[n].rung + 1) =>
                      events[n].config \notin Range(curr_challengers)
               /\ (Len(rungs) >= events[n].rung + 1) =>
                      \A c \in Range(rungs[events[n].rung + 1].entered) :
                          \E m \in 1..Len(events) :
                              /\ events[m].rung = events[n].rung
                              /\ events[m].config = c
                              /\ (IsEvaluation(events[m]) \/ events[m].kind = "stop")

C5_Witness ==
    /\ Len(rungs) >= 1
    /\ Len(rungs[1].entered) = 2
    /\ Len(rungs[1].uncapped) = 1
    /\ \E n \in 1..Len(events) :
           /\ events[n].kind = "capped"
           /\ events[n].config = rungs[1].entered[1]
           /\ \E m \in (n + 1)..Len(events) :
                  /\ events[m].kind = "run"
                  /\ events[m].rung = 0
                  /\ events[m].config = rungs[1].entered[2]


\* C6: once the Evaluator reports the budget exhausted, no further evaluation
\* is issued in the call and the call returns, without an exception, the
\* incumbent it was given together with that incumbent's cost in the store.
C6_ExhaustionReturnsIncumbent ==
    \A n \in 1..Len(events) :
        events[n].kind = "exhausted" =>
            /\ n = Len(events)
            /\ pc = "idle"
            /\ result.kind = "returned"
            /\ result.exc = "none"
            /\ result.incumbent = result.given
            /\ result.inc_perf = GetCost(run_history, result.given)
            /\ incumbent = result.given

C6_Witness ==
    /\ pc = "idle"
    /\ result.via = "exhausted"
    /\ ~IsNone(result.given)
    /\ ~IsNaN(result.inc_perf)
    /\ Len(events) >= 2
    /\ events[Len(events)].kind = "exhausted"
    /\ events[1].kind = "run"

\* C7 (as stated): every evaluation of a call starts while the target
\* algorithm time spent in the call is still below the call's time_bound.
C7_Original ==
    (num_run >= 1) => (ta_time - Dur < call.time_bound)

\* C8: a call that had no incumbent and ran its race to the end returns the
\* race's winner, whatever its cost, with the winner's cost in the store.
C8_FirstIncumbentIsWinner ==
    (pc = "idle" /\ result.via = "finished" /\ IsNone(result.given)) =>
        /\ curr_challengers # <<>>
        /\ result.incumbent = Some(curr_challengers[1])
        /\ incumbent = Some(curr_challengers[1])
        /\ result.inc_perf = GetCost(run_history, Some(curr_challengers[1]))

C8_Witness ==
    /\ pc = "idle"
    /\ result.via = "finished"
    /\ IsNone(result.given)
    /\ Len(call.rung0) = 2
    /\ Len(rungs) >= 1
    /\ result.incumbent = Some(2)
    /\ result.inc_perf = <<1, 1>>

\* C9: a call that had an incumbent and ran its race to the end returns what
\* the comparator chose between the incumbent and the winner, the incumbent
\* when the comparator is undecided, with the returned one's cost in the store.
C9_ComparatorDecides ==
    (pc = "idle" /\ result.via = "finished" /\ ~IsNone(result.given)) =>
        /\ curr_challengers # <<>>
        /\ LET cmp == CompareConfigs(run_history, Val(result.given), curr_challengers[1])
           IN  result.incumbent = (IF IsNone(cmp) THEN result.given ELSE cmp)
        /\ result.incumbent \in {result.given, Some(curr_challengers[1])}
        /\ result.inc_perf = GetCost(run_history, result.incumbent)

C9_Witness ==
    /\ pc = "idle"
    /\ result.via = "finished"
    /\ ~IsNone(result.given)
    /\ Len(rungs) >= 1
    /\ result.incumbent # result.given
    /\ result.incumbent = Some(curr_challengers[1])

\* C10: at the end of a race against an incumbent, the winner replaces the
\* incumbent exactly when the two share at least one context and the
\* winner's aggregate over the shared contexts is strictly lower; with no
\* shared context or equal aggregates the incumbent is kept.
C10_SharedContextComparison ==
    (pc = "idle" /\ result.via = "finished" /\ ~IsNone(result.given)) =>
        LET inc == Val(result.given)
            win == curr_challengers[1]
            shared == GetRunsForConfig(run_history, inc) \cap GetRunsForConfig(run_history, win)
            inc_agg == SumCost(run_history, inc, shared)
            win_agg == SumCost(run_history, win, shared)
        IN  /\ (shared # {} /\ win_agg < inc_agg) => result.incumbent = Some(win)
            /\ (shared = {} \/ win_agg >= inc_agg) => result.incumbent = result.given

C10_Witness ==
    /\ pc = "idle"
    /\ result.via = "finished"
    /\ ~IsNone(result.given)
    /\ Len(rungs) >= 1
    /\ result.incumbent = result.given
    /\ curr_challengers[1] # Val(result.given)
    /\ GetRunsForConfig(run_history, Val(result.given))
           \cap GetRunsForConfig(run_history, curr_challengers[1]) = {}


\* C11 (as stated): every evaluation the intensifier issues is for a run key
\* the History Store does not hold yet, so no write is rejected as a
\* duplicate run and no DuplicateRunError leaves intensify.
C11_Original ==
    /\ \A n \in 1..Len(events) : events[n].kind # "duplicate"
    /\ result.exc # "DuplicateRunError"


\* C12 (as stated): the configurations handed to a top-k selection always
\* have identical run key sets, so the 'cannot compare configs' assertion of
\* _top_k never leaves intensify.
C12_Original ==
    /\ result.exc # "AssertionError"
    /\ (pc = "race" /\ ci > Len(curr_challengers)) =>
           ~KeysDiffer(run_history, RemoveAll(curr_challengers, capped_configs))


\* the configurations of a list do not all have the run key set of the first
MixedKeySets(configs) ==
    \E c \in Range(configs) :
        GetRunsForConfig(run_history, c) # GetRunsForConfig(run_history, configs[1])

\* C13: _top_k never ranks a list in which some configuration's run key set
\* differs from that of the first: a rung that was cut had identical key sets
\* (the store is as the cut saw it until the next rung's first run), and the
\* assertion error that leaves intensify comes with a mismatching list and
\* with no ranking of it.
C13_TopKRejectsMixedKeys ==
    /\ ((pc = "rung" \/ (pc = "idle" /\ result.via = "finished"))
        /\ Len(rungs) >= 1 /\ rungs[Len(rungs)].cut) =>
           ~MixedKeySets(rungs[Len(rungs)].uncapped)
    /\ (pc = "raised" /\ result.exc = "AssertionError") =>
           /\ MixedKeySets(curr_challengers)
           /\ result.kind = "raised"
           /\ Len(rungs) = i

C13_Witness ==
    /\ pc = "raised"
    /\ result.exc = "AssertionError"
    /\ Len(curr_challengers) = 2
    /\ GetRunsForConfig(run_history, curr_challengers[2]) # {}
    /\ MixedKeySets(curr_challengers)


\* C14: an add on a run key the store already holds is rejected as a
\* duplicate run when force_update is false, and the store (records, index
\* of contexts, id maps) is then exactly as before; when force_update is
\* true the record of that key is replaced and every other record, the
\* index and the id maps are as before.
C14_DuplicateAdd ==
    \A n \in 1..Len(events) :
        LET op == events[n].op
            before == events[n].before
            after == StoreAfter(n)
            k == RunKeyOf(ConfigId(before, op.config), op.inst, op.seed, op.budget)
        IN  (k \in DOMAIN before.data) =>
                IF op.force_update
                THEN /\ events[n].kind = "added"
                     /\ DOMAIN after.data = DOMAIN before.data
                     /\ after.data[k] = [cost |-> op.cost, status |-> op.status]
                     /\ \A q \in DOMAIN before.data \ {k} : after.data[q] = before.data[q]
                     /\ after.runs = before.runs
                     /\ after.ids = before.ids
                     /\ after.ids_config = before.ids_config
                ELSE /\ events[n].kind = "DuplicateRunError"
                     /\ after = before

C14_Witness ==
    /\ Len(events) = 3
    /\ events[1].kind = "added" /\ events[1].op.cost = 1
    /\ events[2].kind = "DuplicateRunError" /\ events[2].op.cost = 2
    /\ events[3].kind = "added" /\ events[3].op.cost = 2 /\ events[3].op.force_update
    /\ Cardinality(DOMAIN run_history.data) = 1
    /\ \A k \in DOMAIN run_history.data : run_history.data[k].cost = 2


\* the contexts the log wrote for a configuration
WrittenFor(c) ==
    { <<events[n].op.inst, events[n].op.seed, events[n].op.budget>> :
        n \in { m \in 1..Len(events) :
                    events[m].kind = "added" /\ events[m].op.config = c } }

\* C15: after any sequence of adds, forced overwrites included,
\* get_runs_for_config(c) lists exactly the contexts written for c, each
\* once, in ascending budget order.
C15_RunsForConfig ==
    \A c \in StoreConfigs :
        LET s == RunsInOrder(run_history, c)
        IN  /\ { s[k] : k \in 1..Len(s) } = WrittenFor(c)
            /\ GetRunsForConfig(run_history, c) = WrittenFor(c)
            /\ \A a, b \in 1..Len(s) : (a < b) => s[a] # s[b]
            /\ \A a, b \in 1..Len(s) : (a < b) => RatLE(s[a][3], s[b][3])

C15_Witness ==
    /\ Len(events) = 3
    /\ events[1].kind = "added" /\ events[1].op.config = 2
    /\ events[1].op.budget = <<2, 1>> /\ events[1].op.inst = 1
    /\ events[2].kind = "added" /\ events[2].op.config = 2
    /\ events[2].op.budget = <<1, 1>> /\ events[2].op.inst = 2
    /\ events[3].kind = "added" /\ events[3].op.config = 2
    /\ events[3].op.budget = <<2, 1>> /\ events[3].op.inst = 1
    /\ events[3].op.force_update
    /\ RunsInOrder(run_history, 2) = <<<<2, 1, <<1, 1>>>>, <<1, 1, <<2, 1>>>>>>
    /\ RunsInOrder(run_history, 1) = <<>>

\* C16: the config-to-id and id-to-config maps are inverses of each other,
\* every configuration written has one id, every RunKey's config id is in
\* the id map, and an id a configuration had at any earlier operation is
\* the id it has now.
C16_IdMaps ==
    /\ \A c \in DOMAIN run_history.ids :
           /\ run_history.ids[c] \in DOMAIN run_history.ids_config
           /\ run_history.ids_config[run_history.ids[c]] = c
    /\ \A id \in DOMAIN run_history.ids_config :
           /\ run_history.ids_config[id] \in DOMAIN run_history.ids
           /\ run_history.ids[run_history.ids_config[id]] = id
    /\ \A k \in DOMAIN run_history.data : k[1] \in DOMAIN run_history.ids_config
    /\ \A n \in 1..Len(events) :
           /\ \A c \in DOMAIN events[n].before.ids :
                  /\ c \in DOMAIN run_history.ids
                  /\ run_history.ids[c] = events[n].before.ids[c]
           /\ (events[n].kind = "added") =>
                  /\ events[n].op.config \in DOMAIN run_history.ids
                  /\ RunKeyOf(run_history.ids[events[n].op.config], events[n].op.inst,
                              events[n].op.seed, events[n].op.budget)
                         \in DOMAIN run_history.data

C16_Witness ==
    /\ Len(events) = 3
    /\ events[1].op.config = 2
    /\ events[2].op.config = 1
    /\ events[3].op.config = 2
    /\ \A n \in 1..3 : events[n].kind = "added"
    /\ Cardinality(DOMAIN run_history.data) = 3
    /\ run_history.ids[2] = 1
    /\ run_history.ids[1] = 2


\* the run key an evaluation of the running call was recorded under
KeyOfEvent(e) ==
    RunKeyOf(ConfigId(run_history, e.config), e.pair[1], e.pair[2],
             IF sh.cutoff_as_budget THEN budgets[e.rung + 1] ELSE <<0, 1>>)

\* every run of the call that the Evaluator ended, whatever its status, has
\* its record with that status in the store
OutcomesRecorded ==
    \A n \in 1..Len(events) :
        events[n].kind \in {"run", "capped"} =>
            /\ KeyOfEvent(events[n]) \in DOMAIN run_history.data
            /\ run_history.data[KeyOfEvent(events[n])].status = events[n].status

\* what leaves intensify as an exception is a rejected duplicate key, the
\* key set assertion of _top_k, or the indexing of an empty rung 0
NoOutcomeException ==
    (pc = "raised") =>
        \/ result.exc = "DuplicateRunError" /\ events[Len(events)].kind = "duplicate"
        \/ result.exc = "AssertionError" /\ MixedKeySets(curr_challengers)
        \/ result.exc = "IndexError" /\ call.rung0 = <<>>
        \/ result.exc \in {"ValueError", "OverflowError"} /\ events = <<>>

C18_EtaRejected ==
    IF RatLE(sh.eta, <<1, 1>>)
    THEN /\ sh.error = "ValueError_eta"
         /\ pc = "config_error"
         /\ sh.max_sh_iter = 0 /\ sh.init_chal = 0
         /\ budgets = <<>>
         /\ ncalls = 0
         /\ events = <<>>
         /\ run_history = EmptyHistory
    ELSE sh.error # "ValueError_eta"

C18_Witness ==
    /\ sh.eta = <<1, 1>>
    /\ sh.error = "ValueError_eta"
    /\ pc = "config_error"
    /\ run_history = EmptyHistory


\* C19 (as stated): in the instance-count regime a max_budget above the
\* number of instance-seed pairs fails the construction, and an object that
\* was constructed has 1 <= max_budget <= number of pairs, with a warning
\* when max_budget is below the number of pairs.
C19_Original ==
    (~sh.cutoff_as_budget /\ sh.error \in {"none", "ValueError_max_budget"}) =>
        /\ (sh.error = "ValueError_max_budget") <=> (sh.max_budget > Len(sh.instances))
        /\ (sh.error = "none") =>
               /\ 1 <= sh.max_budget
               /\ sh.max_budget <= Len(sh.instances)
               /\ (sh.max_budget < Len(sh.instances)) =>
                      sh.warning = "max_budget_lt_pairs"


\* the constructor arguments from which the object sh can have been built
ArgsOf ==
    { a \in { b \in BoundedArgs :
                /\ b.eta = sh.eta /\ b.cutoff = sh.cutoff
                /\ b.run_obj_time = sh.run_obj_time
                /\ b.deterministic = sh.deterministic
                /\ b.instance_order = sh.instance_order } :
        \E perm \in Perms(a.n_inst) : Construct(a, perm) = sh }

IndexOf(s, c) == IF c \in Range(s) THEN CHOOSE k \in 1..Len(s) : s[k] = c ELSE 0

\* C21: right after a rung's top-k cut, the kept list holds the
\* k = next_n_chal challengers of lowest aggregate cost among the rung's
\* uncapped challengers (all of them when there are fewer), in ascending cost
\* order, and challengers of equal cost stand, and are kept, in the order
\* they had in the ranked list; after the final rung the first element costs
\* no more than any other survivor of that rung.
C21_TopKStableAscending ==
    (pc = "rung" /\ rungs # <<>>) =>
        LET r == rungs[Len(rungs)]
            cost(c) == GetCost(run_history, Some(c))
        IN  r.cut =>
              /\ r.kept = curr_challengers
              /\ Len(r.kept) = Min2(next_n_chal, Len(r.uncapped))
              /\ Range(r.kept) \subseteq Range(r.uncapped)
              /\ \A a, b \in 1..Len(r.kept) :
                     a < b => /\ ~CostLT(cost(r.kept[b]), cost(r.kept[a]))
                              /\ (~CostLT(cost(r.kept[a]), cost(r.kept[b])))
                                    => IndexOf(r.uncapped, r.kept[a])
                                         < IndexOf(r.uncapped, r.kept[b])
              /\ \A x \in Range(r.kept), y \in Range(r.uncapped) \ Range(r.kept) :
                     /\ ~CostLT(cost(y), cost(x))
                     /\ (~CostLT(cost(x), cost(y)))
                           => IndexOf(r.uncapped, x) < IndexOf(r.uncapped, y)
              /\ (i >= Len(budgets)) =>
                     \A y \in Range(r.uncapped) :
                         ~CostLT(cost(y), cost(curr_challengers[1]))

C21_Witness ==
    /\ pc = "rung" /\ rungs # <<>> /\ i >= Len(budgets)
    /\ LET r == rungs[Len(rungs)]
       IN  /\ r.cut
           /\ Len(r.uncapped) = 2
           /\ ~IsNaN(GetCost(run_history, Some(r.uncapped[1])))
           /\ RatEQ(GetCost(run_history, Some(r.uncapped[1])),
                    GetCost(run_history, Some(r.uncapped[2])))
           /\ r.kept = <<r.uncapped[1]>>

\* the call has just selected its rung-0 challengers: nothing has run yet
JustSelected == pc = "rung" /\ i = 0 /\ rungs = <<>> /\ events = <<>>

\* C22: when challengers may not repeat (n_seeds <= 1, order not 'shuffle'),
\* rung 0 is the first init_chal challengers of the supplied list that the
\* store does not know, in the supplied order (all of the unknown ones when
\* there are fewer); when repeats are permitted it is the first init_chal
\* challengers of the list; and every evaluation, capping or stop of the call
\* is of a rung-0 challenger.
C22_RungZero ==
    /\ JustSelected =>
         LET chals == call.challengers
             known == GetAllConfigs(run_history)
             fresh == { k \in 1..Len(chals) : chals[k] \notin known }
             nth(j) == CHOOSE k \in fresh :
                           Cardinality({ m \in fresh : m <= k }) = j
         IN  /\ curr_challengers = call.rung0
             /\ IF sh.n_seeds <= 1 /\ sh.instance_order # "shuffle"
                THEN /\ Len(call.rung0) = Min2(sh.init_chal, Cardinality(fresh))
                     /\ \A j \in 1..Len(call.rung0) : call.rung0[j] = chals[nth(j)]
                ELSE /\ Len(call.rung0) = Min2(sh.init_chal, Len(chals))
                     /\ \A j \in 1..Len(call.rung0) : call.rung0[j] = chals[j]
    /\ \A k \in 1..Len(events) : events[k].config \in Range(call.rung0)
    /\ Range(curr_challengers) \subseteq Range(call.rung0)

C22_Witness ==
    /\ JustSelected
    /\ sh.n_seeds <= 1 /\ sh.instance_order # "shuffle"
    /\ Len(call.challengers) = 2
    /\ call.challengers[1] \in GetAllConfigs(run_history)
    /\ sh.init_chal = 1
    /\ call.rung0 = <<call.challengers[2]>>

C24_Original ==
    \A j \in 1..Len(events) :
        LET e == events[j]
        IN  (e.kind \in {"SobolInitialDesign", "get_initial_design"}
               /\ IsNone(e.args.configs) /\ ~IsNone(e.args.n_configs)
               /\ e.design.error = "none")
            => RatEQ(e.design.n_configs, Val(e.args.n_configs))

\* the pairs at the 0-based positions [lo, hi) of the call's instance list
PairsAt(lo, hi) ==
    [j \in 1..(IF hi > lo THEN hi - lo ELSE 0) |-> sh.instances[lo + j]]

\* the rung bounds int(budgets[k-1]) and int(budgets[k]) of rung k (1-based)
SliceLo(k) == IF k > 1 THEN IntOf(budgets[k - 1]) ELSE 0
SliceHi(k) == IntOf(budgets[k])

\* the evaluations of configuration c on pair p in the running / last call
RunsOn(c, p) ==
    { k \in 1..Len(events) :
        events[k].kind = "run" /\ events[k].config = c /\ events[k].pair = p }

\* C25 (as stated): in the instance-count regime rung i races on the pairs
\* at positions [int(budgets[i-1]), int(budgets[i])) of the instance-seed
\* list (from 0 in the first rung), so that the slices of successive rungs
\* are contiguous and disjoint; and a challenger that is left after the last
\* rung has been evaluated in the call on exactly the first max_budget pairs
\* of the list, each exactly once.
C25_Original ==
    (sh.error = "none" /\ ~sh.cutoff_as_budget) =>
        /\ (pc = "race") => available_insts = PairsAt(SliceLo(i + 1), SliceHi(i + 1))
        /\ \A k \in 1..Len(rungs) :
               /\ rungs[k].insts = PairsAt(SliceLo(k), SliceHi(k))
               /\ SliceLo(k) <= SliceHi(k) /\ SliceHi(k) <= Len(sh.instances)
        /\ (pc = "idle" /\ result.kind = "returned" /\ result.via = "finished") =>
               \A c \in Range(curr_challengers) :
                   /\ \A m \in 1..Len(sh.instances) :
                          Cardinality(RunsOn(c, sh.instances[m]))
                              = IF m <= sh.max_budget THEN 1 ELSE 0
                   /\ sh.max_budget <= Len(sh.instances)

\* the seeds of the object's instance-seed pairs
SeedsInUse == { sh.instances[k][2] : k \in 1..Len(sh.instances) }

\* C26 (as stated): a challenger the store already knows is in rung 0 only if
\* the race runs across more than one seed or the instance order is
\* 'shuffle'; with a single seed and a fixed order the known challengers are
\* skipped.
C26_Original ==
    (JustSelected /\ Cardinality(SeedsInUse) <= 1 /\ sh.instance_order # "shuffle") =>
        Range(call.rung0) \cap GetAllConfigs(run_history) = {}

\* C27 (as stated): in the cutoff-as-budget regime (quality objective, at
\* most one pair, min_budget given), a construction with both a hard cutoff
\* and max_budget succeeds and max_budget is the ladder's maximum; with the
\* cutoff alone the cutoff is the maximum.
C27_Original ==
    (ncalls = 0 /\ pc \in {"idle", "config_error"} /\ RatLT(<<1, 1>>, sh.eta)) =>
        \A a \in ArgsOf :
            ((~a.run_obj_time) /\ Len(sh.instances) <= 1
               /\ (~IsNone(a.min_budget)) /\ (~IsNone(a.cutoff))) =>
                /\ sh.error = "none"
                /\ sh.cutoff_as_budget
                /\ sh.max_budget = IF IsNone(a.max_budget) THEN Val(a.cutoff)
                                   ELSE Val(a.max_budget)

\* C28 (as stated): in the instance-count regime, for eta > 1 and
\* 1 <= min_budget <= max_budget, the instance-seed slice of every rung is
\* non-empty, and every challenger that is left after a rung's removal of
\* the capped ones was evaluated in that rung.
C28_Original ==
    (sh.error = "none" /\ ~sh.cutoff_as_budget
       /\ 1 <= sh.min_budget /\ sh.min_budget <= sh.max_budget) =>
        /\ (pc = "race") => available_insts # <<>>
        /\ \A k \in 1..Len(rungs) :
               /\ rungs[k].insts # <<>>
               /\ \A c \in Range(rungs[k].uncapped) :
                      \E e \in 1..Len(events) :
                          /\ events[e].kind = "run"
                          /\ events[e].config = c
                          /\ events[e].rung = k - 1

\* configuration c was in the store before the running / last call began:
\* it has a record that no evaluation of this call has written
KnownAtStart(c) ==
    \E key \in KeysOf(run_history, c) :
        \A k \in 1..Len(events) : KeyOfEvent(events[k]) # key

\* a call has begun on an object whose challengers may not repeat, and the
\* store knew every supplied challenger before
AllKnownCall ==
    /\ sh.error = "none" /\ ncalls >= 1
    /\ sh.n_seeds <= 1 /\ sh.instance_order # "shuffle"
    /\ \A k \in 1..Len(call.challengers) : KnownAtStart(call.challengers[k])

\* C29 (as stated): when challengers may not repeat and the store knows
\* every supplied challenger, the call issues no evaluation, leaves the
\* store as it is, raises nothing and returns the given incumbent with its
\* recorded cost.
C29_Original ==
    /\ [](AllKnownCall =>
            /\ events = <<>>
            /\ pc # "raised"
            /\ (pc = "idle") =>
                   /\ result.kind = "returned"
                   /\ result.incumbent = result.given
                   /\ result.inc_perf = GetCost(run_history, result.given))
    /\ [][AllKnownCall' => run_history' = run_history]_vars

\* the challengers capped in the running / last call
CappedInCall == { events[k].config : k \in { j \in 1..Len(events) : events[j].kind = "capped" } }

============================================================================
